---- MODULE Spec2Model ----
(***************************************************************************)
(* coffeelog-backend: the relational store (Coffee, Cup), the Redis cache  *)
(* in front of the aggregate counters and of /coffee/latest, and the       *)
(* request handlers of src/app/main.py.                                    *)
(*                                                                         *)
(* Requests are served one at a time: an action is a whole handler, from   *)
(* its cache lookup or relational transaction to its last cache command.   *)
(* req is the request served last and resp the outcome of its handler: the *)
(* value it returns (status 200) or the exception that ends it             *)
(* (HTTPException 404, or an uncaught exception, answered with 500).       *)
(*                                                                         *)
(* Values: a nullable or optional value is a sequence, <<>> for None and   *)
(* <<v>> for v.  A timestamp is kept as the index of its calendar day,     *)
(* which is all that `date_time >= date.today()` reads of it.              *)
(***************************************************************************)
EXTENDS Integers, Sequences, FiniteSets, TLC

\* ------------------------------------------------------------- bounds
\* ids the coffee table's sequence hands out
MaxCoffees == 2
\* ids the cup table's sequence hands out
MaxCups == 2
\* how many times the clock advances
MaxTicks == 1

\* ------------------------------------------------- program constants
\* ttl of cache_set_json in read_latest_coffee_id
TTL_LATEST == 300
\* ttl of cache_set_json in get_coffee_count_total
TTL_TOTAL == 30
\* ttl of cache_set_json in get_coffee_count_total_username
TTL_TOTAL_USER == 30
\* ttl of cache_set_json in get_coffee_count_today
TTL_TODAY == 10
\* ttl of cache_set_json in get_coffee_count_today_username
TTL_TODAY_USER == 30

\* seconds of a calendar day: datetime.date.today() changes every DayLen
\* the highest limit GET /cups/ accepts, Query(le=100), and its default
LIMIT_CAP == 100
LIMIT_DEFAULT == 100

DayLen == 24 * 60 * 60
\* the clock starts shortly before a midnight
StartTime == DayLen - 5
\* the amounts by which the clock advances between two requests
\* half of the shortest ttl, and the longest ttl
ShortTick == TTL_TODAY \div 2
TickSteps == {ShortTick, TTL_LATEST}

Users == {"alice", "bob"}
None == <<>>
Some(v) == <<v>>

\* ------------------------------------------------------------ cache keys
key_latest == "cache:meta:coffee:latest"
key_total == "cache:meta:total"
\* (mutant) one key for every username
key_total_user_shared(user) == "cache:meta:total:"

key_total_user(user) == "cache:meta:total:" \o user
key_today == "cache:meta:today"
key_today_user(user) == "cache:meta:today:" \o user

Keys ==
    {key_latest, key_total, key_today}
        \cup {key_total_user(u) : u \in Users}
        \cup {key_today_user(u) : u \in Users}

VARIABLES coffee, cup, nextCoffeeId, nextCupId, cache, now, ticks, req, resp, calls,
          redis_client, lifespan

vars == <<coffee, cup, nextCoffeeId, nextCupId, cache, now, ticks, req, resp, calls,
          redis_client, lifespan>>
store == <<coffee, cup, nextCoffeeId, nextCupId>>

\* ------------------------------------------------------------ values
\* a datetime.date, and the string json.dumps(default=str) makes of it
Date(d) == [t |-> "date", d |-> d]
IsoStr(d) == [t |-> "str", d |-> d]

CoffeeFields == {"size_g", "price", "roast_date"}
CupFields == {"date_time", "username", "coffee_id"}

\* the request bodies of POST /coffee/ (schemas.CoffeeBase): every field is
\* required, size_g is an int, price and roast_date may be null.  The other
\* columns (roasting_facility, coffee_name, open_date, country_of_origin)
\* are handled by the code exactly like these three.
CoffeePayloads ==
    { [size_g |-> Some(250), price |-> Some(9), roast_date |-> Some(Date(0))],
      [size_g |-> Some(250), price |-> None, roast_date |-> None] }

\* the calendar days a submitted date_time can fall on
CupDays == {0, 1}

\* the request bodies of POST /cups/ (schemas.CupBase): all fields required
CupPayloads ==
    [date_time : {Some(d) : d \in CupDays},
     username : {Some(u) : u \in Users},
     coffee_id : {Some(i) : i \in 1..MaxCoffees}]

\* A PATCH body (schemas.CoffeeUpdate, schemas.CupUpdate): `set` is the
\* fields the body holds (pydantic's model_fields_set), val their values; a
\* field may be held with the value null.
NoCoffeeVal == [size_g |-> None, price |-> None, roast_date |-> None]
CoffeePatches ==
    { [set |-> {}, val |-> NoCoffeeVal],
      [set |-> {"price"}, val |-> [NoCoffeeVal EXCEPT !.price = Some(12)]],
      [set |-> {"size_g"}, val |-> NoCoffeeVal] }

NoCupVal == [date_time |-> None, username |-> None, coffee_id |-> None]
CupPatches ==
    { [set |-> {}, val |-> NoCupVal],
      [set |-> {"username"}, val |-> [NoCupVal EXCEPT !.username = Some("bob")]],
      [set |-> {"username"}, val |-> NoCupVal],
      [set |-> {"coffee_id"}, val |-> [NoCupVal EXCEPT !.coffee_id = Some(MaxCoffees)]] }

\* the columns declared without `| None` (NOT NULL)
CoffeeNotNull == {"size_g"}
CupNotNull == {"date_time", "username", "coffee_id"}

\* (mutant) model_dump() without exclude_unset: the fields the body does not
\* hold are assigned their default, None
ApplyPatch_All(row, patch) ==
    [f \in DOMAIN row |-> IF f \in DOMAIN patch.val THEN patch.val[f] ELSE row[f]]

\* model_dump(exclude_unset=True) and the setattr loop of the PATCH handlers
ApplyPatch(row, patch) ==
    [f \in DOMAIN row |-> IF f \in patch.set THEN patch.val[f] ELSE row[f]]

NoReq == [op |-> "", user |-> "", id |-> 0]
\* db: whether the handler opened a Session on the relational store; seen:
\* what its cache lookup found under the key ("" for no key, else the kind of
\* the bytes)
NoResp == [status |-> 0, body |-> None, hdr |-> <<>>, db |-> FALSE, seen |-> ""]

\* calls: the handlers that are under way, one that writes (w) and one
\* cacheable read (r), each with its position and local values; op = "" when
\* there is none.  req/resp then hold the request answered last.
NoCall == [op |-> "", user |-> "", id |-> 0, arg |-> None, pc |-> 0,
           committed |-> FALSE, body |-> None, val |-> None]
NoCalls == [w |-> NoCall, r |-> NoCall]

\* ------------------------------------------------------------ the cache
\* cache maps the keys Redis holds to their entries: the bytes stored, the
\* time at which Redis drops the key, and (history) the time at which the
\* stored value was read from the relational store
Present(k) == k \in DOMAIN cache

\* json.dumps(value, default=str) of a count
json_dumps_int(n) == [kind |-> "json", val |-> Some(n)]

\* json.dumps(value, default=str) of coffee.model_dump(): a date becomes str(date)
json_dumps_coffee(c) ==
    [kind |-> "json",
     val |-> Some([c EXCEPT !.roast_date =
                     IF c.roast_date = None THEN None
                     ELSE Some(IsoStr(c.roast_date[1].d))])]

\* json.loads(data) of the bytes Redis returns: the value, or the exception
json_loads(data) ==
    CASE data.kind = "json" -> [exc |-> "", val |-> data.val]
      [] data.kind = "notjson" -> [exc |-> "JSONDecodeError", val |-> None]
      [] data.kind = "badutf8" -> [exc |-> "UnicodeDecodeError", val |-> None]

\* cache_get_json(r, key): None for a missing key and for a JSONDecodeError
cache_get_json(k) ==
    IF ~Present(k) THEN [exc |-> "", val |-> None]
    ELSE LET r == json_loads(cache[k].data) IN
         IF r.exc = "JSONDecodeError" THEN [exc |-> "", val |-> None] ELSE r

\* (mutant) every key stored with the expiry of the total key
cache_set_json_30(c, k, data, ttl) ==
    [x \in DOMAIN c \cup {k} |->
        IF x = k THEN [data |-> data, exp |-> now + TTL_TOTAL, at |-> now] ELSE c[x]]

\* cache_set_json(r, key, value, ttl): SET key data EX ttl
cache_set_json(c, k, data, ttl) ==
    [x \in DOMAIN c \cup {k} |->
        IF x = k THEN [data |-> data, exp |-> now + ttl, at |-> now] ELSE c[x]]

\* cache_del_json(r, key): DEL key
cache_del_json(c, k) == [x \in DOMAIN c \ {k} |-> c[x]]

\* (mutant) create_coffee and update_coffee delete no key
CoffeeKeys_None == <<>>

\* the key create_coffee and update_coffee delete
CoffeeKeys == <<key_latest>>

\* (mutant) delete_coffee forgets the latest-coffee key
DeleteCoffeeKeys_CountsOnly == <<key_today, key_total>>

\* the keys delete_coffee deletes, in the order of the code
DeleteCoffeeKeys == <<key_latest, key_today, key_total>>

\* (mutant) a write handler that deletes no key
cache_del_none(c, keys) == c

\* the cache_del_json calls of a write handler, in their order
RECURSIVE cache_del_all(_, _)
cache_del_all(c, keys) ==
    IF keys = <<>> THEN c ELSE cache_del_all(cache_del_json(c, Head(keys)), Tail(keys))

\* (mutant) keys stored without an expiry
Expire_never(c, t) == c

\* Redis drops a key when its expiry time is reached
Expire(c, t) == [k \in {x \in DOMAIN c : c[x].exp > t} |-> c[k]]

\* `if cached:` on a count and on a coffee dict
TruthyCount(v) == v # None /\ v[1] # 0
TruthyCoffee(v) == v # None

\* the client Redis.from_url returns; aclose() closes it
Client == [closed |-> FALSE]

\* the lifespan generator: where it stands, how many clients it has made, the
\* exception it leaves with
NotStarted == [pc |-> "from_url", created |-> 0, exc |-> ""]
Serving == [pc |-> "yield", created |-> 1, exc |-> ""]

\* ------------------------------------------------------------ the store
Today == now \div DayLen

CoffeeIds == {c.id : c \in coffee}
CupIds == {c.id : c \in cup}
CoffeeById(i) == CHOOSE c \in coffee : c.id = i
CupById(i) == CHOOSE c \in cup : c.id = i

\* (mutant) the Coffee with the lowest id: order_by ascending
LowestCoffee == CHOOSE c \in coffee : \A d \in coffee : d.id >= c.id

\* select(models.Coffee).order_by(models.Coffee.id.desc()) ... .first()
LatestCoffee == CHOOSE c \in coffee : \A d \in coffee : d.id <= c.id

\* select(func.count(models.Cup.id)) and its filtered variants
CountTotal == Cardinality(cup)
CountTotalUser(u) == Cardinality({c \in cup : c.username = Some(u)})
CountToday == Cardinality({c \in cup : c.date_time[1] >= Today})
CountTodayUser(u) ==
    Cardinality({c \in cup : c.username = Some(u) /\ c.date_time[1] >= Today})

\* (mutant) a Cup write that forgets the two total keys
CupKeys_TodayOnly(user) == <<key_today, key_today_user(user)>>

\* the keys the Cup writes delete for `user`, in the order of the code
CupKeys(user) == <<key_today, key_today_user(user), key_total, key_total_user(user)>>

\* a Coffee as the JSON of a response (response_model=schemas.Coffee): a date,
\* or the date string of a cached snapshot parsed back, is sent as its string
coffee_response(c) ==
    [c EXCEPT !.roast_date =
        IF c.roast_date = None THEN None ELSE Some(IsoStr(c.roast_date[1].d))]

Init ==
    /\ coffee = {}
    /\ cup = {}
    /\ nextCoffeeId = 1
    /\ nextCupId = 1
    /\ cache = <<>>
    /\ now = StartTime
    /\ ticks = 0
    /\ req = NoReq
    /\ resp = NoResp
    /\ calls = NoCalls
    /\ redis_client = Some(Client)
    /\ lifespan = Serving

\* the handler ends: it returns `body` (200), or raises (404, 500)
Respond(r, status, body, hdr, db) ==
    /\ req' = r
    /\ resp' = [status |-> status, body |-> body, hdr |-> hdr, db |-> db, seen |-> ""]
    /\ UNCHANGED <<calls, redis_client, lifespan>>

\* the same for a handler that looked up key k first
RespondCached(r, status, body, hdr, db, k) ==
    /\ req' = r
    /\ resp' = [status |-> status, body |-> body, hdr |-> hdr, db |-> db,
                seen |-> IF Present(k) THEN cache[k].data.kind ELSE ""]
    /\ UNCHANGED <<calls, redis_client, lifespan>>

\* ------------------------------------------------------------ time
\* The clock advances by d seconds between two requests (a request is served
\* within one clock second); Redis drops the keys whose expiry is reached.
Tick(d) ==
    /\ ticks < MaxTicks
    /\ ticks' = ticks + 1
    /\ now' = now + d
    /\ cache' = Expire(cache, now + d)
    /\ req' = NoReq
    /\ resp' = NoResp
    /\ UNCHANGED <<store, calls, redis_client, lifespan>>

\* ------------------------------------------------- the counter endpoints
\* cached = await cache_get_json(r, k); if cached: return cached; else count
\* the rows (n), await cache_set_json(r, k, n, ttl) and return n
CountRead(op, user, k, n, ttl, hdr, hit, miss) ==
    /\ LET r == [op |-> op, user |-> user, id |-> 0]
           c == cache_get_json(k)
       IN  IF c.exc # "" THEN
               /\ RespondCached(r, 500, None, <<>>, FALSE, k)
               /\ cache' = cache
           ELSE IF TruthyCount(c.val) THEN
               /\ RespondCached(r, 200, c.val, <<hdr, hit>>, FALSE, k)
               /\ cache' = cache
           ELSE
               /\ RespondCached(r, 200, Some(n), <<hdr, miss>>, TRUE, k)
               /\ cache' = cache_set_json(cache, k, json_dumps_int(n), ttl)
    /\ UNCHANGED <<store, now, ticks>>

get_coffee_count_total ==
    CountRead("get_coffee_count_total", "", key_total, CountTotal, TTL_TOTAL,
              "x-cache", " hit", " miss")

get_coffee_count_total_username(username) ==
    CountRead("get_coffee_count_total_username", username, key_total_user(username),
              CountTotalUser(username), TTL_TOTAL_USER, "x-cached", "hit", "miss")

get_coffee_count_today ==
    CountRead("get_coffee_count_today", "", key_today, CountToday, TTL_TODAY,
              "x-cache", "hit", "miss")

get_coffee_count_today_username(username) ==
    CountRead("get_coffee_count_today_username", username, key_today_user(username),
              CountTodayUser(username), TTL_TODAY_USER, "x-cache", "hit", "miss")

\* ------------------------------------------------------------ Cup writes
\* (mutant) POST /cups/ on a store that does not enforce the foreign key
create_cup_unchecked(c) ==
    /\ nextCupId <= MaxCups
    /\ nextCupId' = nextCupId + 1
    /\ LET row == [id |-> nextCupId, date_time |-> c.date_time,
                   username |-> c.username, coffee_id |-> c.coffee_id]
           r == [op |-> "create_cup", user |-> c.username[1], id |-> row.id]
       IN  /\ cup' = cup \cup {row}
           /\ cache' = cache_del_all(cache, CupKeys(c.username[1]))
           /\ Respond(r, 200, Some(row), <<>>, TRUE)
    /\ UNCHANGED <<coffee, nextCoffeeId, now, ticks>>

\* POST /cups/: insert and commit (the foreign key of models.Cup.coffee_id
\* makes the commit raise IntegrityError when no such Coffee exists; the
\* sequence value drawn for the id is spent either way); then the four
\* keys of the username are deleted
create_cup(c) ==
    /\ nextCupId <= MaxCups
    /\ nextCupId' = nextCupId + 1
    /\ LET row == [id |-> nextCupId, date_time |-> c.date_time,
                   username |-> c.username, coffee_id |-> c.coffee_id]
           r == [op |-> "create_cup", user |-> c.username[1], id |-> row.id]
       IN  IF c.coffee_id[1] \in CoffeeIds
           THEN /\ cup' = cup \cup {row}
                /\ cache' = cache_del_all(cache, CupKeys(c.username[1]))
                /\ Respond(r, 200, Some(row), <<>>, TRUE)
           ELSE /\ cup' = cup
                /\ cache' = cache
                /\ Respond(r, 500, None, <<>>, TRUE)
    /\ UNCHANGED <<coffee, nextCoffeeId, now, ticks>>

\* POST /actions/drink: 404 without a Coffee; else a Cup of the Coffee with
\* the highest id, dated datetime.now(); then the four keys are deleted
\* (mutant) perform_drink taking its Coffee from the cached latest-coffee
\* snapshot when there is one
perform_drink_cached(username) ==
    /\ LET r == [op |-> "perform_drink", user |-> username, id |-> 0]
           c == cache_get_json(key_latest)
       IN
       IF c.exc # ""
       THEN /\ Respond(r, 500, None, <<>>, FALSE)
            /\ UNCHANGED <<cup, nextCupId, cache>>
       ELSE IF coffee = {} /\ ~TruthyCoffee(c.val)
       THEN /\ Respond(r, 404, None, <<>>, TRUE)
            /\ UNCHANGED <<cup, nextCupId, cache>>
       ELSE /\ nextCupId <= MaxCups
            /\ LET row == [id |-> nextCupId, date_time |-> Some(Today),
                           username |-> Some(username),
                           coffee_id |-> Some(IF TruthyCoffee(c.val) THEN c.val[1].id
                                                ELSE LatestCoffee.id)]
               IN  /\ cup' = cup \cup {row}
                   /\ nextCupId' = nextCupId + 1
                   /\ cache' = cache_del_all(cache, CupKeys(username))
                   /\ Respond([r EXCEPT !.id = row.id], 200, Some(row), <<>>, TRUE)
    /\ UNCHANGED <<coffee, nextCoffeeId, now, ticks>>

perform_drink(username) ==
    /\ LET r == [op |-> "perform_drink", user |-> username, id |-> 0] IN
       IF coffee = {}
       THEN /\ Respond(r, 404, None, <<>>, TRUE)
            /\ UNCHANGED <<cup, nextCupId, cache>>
       ELSE /\ nextCupId <= MaxCups
            /\ LET row == [id |-> nextCupId, date_time |-> Some(Today),
                           username |-> Some(username),
                           coffee_id |-> Some(LatestCoffee.id)]
               IN  /\ cup' = cup \cup {row}
                   /\ nextCupId' = nextCupId + 1
                   /\ cache' = cache_del_all(cache, CupKeys(username))
                   /\ Respond([r EXCEPT !.id = row.id], 200, Some(row), <<>>, TRUE)
    /\ UNCHANGED <<coffee, nextCoffeeId, now, ticks>>

\* DELETE /cups/{cup_id}: 404 without such a Cup.  Otherwise
\* schemas.Cup(**db_cup.__dict__) is built from the loaded columns; the
\* required field `coffee` of schemas.Cup (`coffee: Coffee | None`, no
\* default) is not among them, so the constructor raises ValidationError
\* before session.delete: the request ends in a server error and neither
\* the delete nor the four cache deletions after it are reached.
delete_cup(cup_id) ==
    /\ LET r == [op |-> "delete_cup", user |-> "", id |-> cup_id] IN
       IF cup_id \notin CupIds
       THEN Respond(r, 404, None, <<>>, TRUE)
       ELSE Respond(r, 500, None, <<>>, TRUE)
    /\ UNCHANGED <<store, cache, now, ticks>>

\* ---------------------------------------------------------- Coffee writes
\* POST /coffee/: insert, commit, refresh; then the latest-coffee key is deleted
create_coffee(c) ==
    /\ nextCoffeeId <= MaxCoffees
    /\ LET row == [id |-> nextCoffeeId, size_g |-> c.size_g, price |-> c.price,
                   roast_date |-> c.roast_date]
       IN  /\ coffee' = coffee \cup {row}
           /\ nextCoffeeId' = nextCoffeeId + 1
           /\ cache' = cache_del_all(cache, CoffeeKeys)
           /\ Respond([op |-> "create_coffee", user |-> "", id |-> row.id], 200,
                      Some(coffee_response(row)), <<>>, TRUE)
    /\ UNCHANGED <<cup, nextCupId, now, ticks>>

\* PATCH /coffee/{coffee_id}: 404 without such a Coffee; else the fields of
\* the body are assigned and committed (size_g is NOT NULL: a body that
\* holds it as null makes the commit raise IntegrityError, and the key is
\* not deleted); then the latest-coffee key is deleted
update_coffee(coffee_id, patch) ==
    /\ LET r == [op |-> "update_coffee", user |-> "", id |-> coffee_id] IN
       IF coffee_id \notin CoffeeIds
       THEN /\ Respond(r, 404, None, <<>>, TRUE)
            /\ UNCHANGED <<coffee, cache>>
       ELSE LET new == ApplyPatch(CoffeeById(coffee_id), patch) IN
            IF new.size_g = None
            THEN /\ Respond(r, 500, None, <<>>, TRUE)
                 /\ UNCHANGED <<coffee, cache>>
            ELSE /\ coffee' = (coffee \ {CoffeeById(coffee_id)}) \cup {new}
                 /\ cache' = cache_del_all(cache, CoffeeKeys)
                 /\ Respond(r, 200, Some(coffee_response(new)), <<>>, TRUE)
    /\ UNCHANGED <<cup, nextCoffeeId, nextCupId, now, ticks>>

\* (mutant) delete_coffee without the foreign-key refusal of the database
delete_coffee_unchecked(coffee_id) ==
    /\ LET r == [op |-> "delete_coffee", user |-> "", id |-> coffee_id] IN
       IF coffee_id \notin CoffeeIds
       THEN /\ Respond(r, 404, None, <<>>, TRUE)
            /\ UNCHANGED <<coffee, cache>>
       ELSE /\ coffee' = coffee \ {CoffeeById(coffee_id)}
            /\ cache' = cache_del_all(cache, DeleteCoffeeKeys)
            /\ Respond(r, 200, Some([ok |-> TRUE]), <<>>, TRUE)
    /\ UNCHANGED <<cup, nextCoffeeId, nextCupId, now, ticks>>

\* (mutant) delete_coffee deleting its keys before it looks the row up
delete_coffee_eager(coffee_id) ==
    /\ LET r == [op |-> "delete_coffee", user |-> "", id |-> coffee_id] IN
       IF coffee_id \notin CoffeeIds
       THEN /\ Respond(r, 404, None, <<>>, TRUE)
            /\ cache' = cache_del_all(cache, DeleteCoffeeKeys)
            /\ UNCHANGED coffee
       ELSE IF \E c \in cup : c.coffee_id = Some(coffee_id)
       THEN /\ Respond(r, 500, None, <<>>, TRUE)
            /\ cache' = cache_del_all(cache, DeleteCoffeeKeys)
            /\ UNCHANGED coffee
       ELSE /\ coffee' = coffee \ {CoffeeById(coffee_id)}
            /\ cache' = cache_del_all(cache, DeleteCoffeeKeys)
            /\ Respond(r, 200, Some([ok |-> TRUE]), <<>>, TRUE)
    /\ UNCHANGED <<cup, nextCoffeeId, nextCupId, now, ticks>>

\* DELETE /coffee/{coffee_id}: 404 without such a Coffee.  session.delete of
\* a Coffee whose `cups` relationship (no delete cascade) holds Cups sets
\* their coffee_id to NULL, which the NOT NULL column refuses: the commit
\* raises IntegrityError and nothing is deleted.  Otherwise the row goes and
\* the latest-coffee, today and total keys are deleted.
delete_coffee(coffee_id) ==
    /\ LET r == [op |-> "delete_coffee", user |-> "", id |-> coffee_id] IN
       IF coffee_id \notin CoffeeIds
       THEN /\ Respond(r, 404, None, <<>>, TRUE)
            /\ UNCHANGED <<coffee, cache>>
       ELSE IF \E c \in cup : c.coffee_id = Some(coffee_id)
       THEN /\ Respond(r, 500, None, <<>>, TRUE)
            /\ UNCHANGED <<coffee, cache>>
       ELSE /\ coffee' = coffee \ {CoffeeById(coffee_id)}
            /\ cache' = cache_del_all(cache, DeleteCoffeeKeys)
            /\ Respond(r, 200, Some([ok |-> TRUE]), <<>>, TRUE)
    /\ UNCHANGED <<cup, nextCoffeeId, nextCupId, now, ticks>>

\* PATCH /cups/{cup_id}: 404 without such a Cup; else the fields of the body
\* are assigned and committed (every column is NOT NULL and coffee_id is a
\* foreign key: IntegrityError otherwise).  The handler takes no Redis
\* client and deletes no key.
update_cup(cup_id, patch) ==
    /\ LET r == [op |-> "update_cup", user |-> "", id |-> cup_id] IN
       IF cup_id \notin CupIds
       THEN /\ Respond(r, 404, None, <<>>, TRUE)
            /\ cup' = cup
       ELSE LET new == ApplyPatch(CupById(cup_id), patch) IN
            IF \/ \E f \in CupFields : new[f] = None
               \/ new.coffee_id[1] \notin CoffeeIds
            THEN /\ Respond(r, 500, None, <<>>, TRUE)
                 /\ cup' = cup
            ELSE /\ cup' = (cup \ {CupById(cup_id)}) \cup {new}
                 /\ Respond([r EXCEPT !.user = new.username[1]], 200, Some(new), <<>>, TRUE)
    /\ UNCHANGED <<coffee, nextCoffeeId, nextCupId, cache, now, ticks>>

\* ------------------------------------------------------------ reads by id
\* GET /coffee/{coffee_id}
read_coffee(coffee_id) ==
    /\ LET r == [op |-> "read_coffee", user |-> "", id |-> coffee_id] IN
       IF coffee_id \notin CoffeeIds
       THEN Respond(r, 404, None, <<>>, TRUE)
       ELSE Respond(r, 200, Some(coffee_response(CoffeeById(coffee_id))), <<>>, TRUE)
    /\ UNCHANGED <<store, cache, now, ticks>>

\* GET /cups/{cup_id}
read_cup(cup_id) ==
    /\ LET r == [op |-> "read_cup", user |-> "", id |-> cup_id] IN
       IF cup_id \notin CupIds
       THEN Respond(r, 404, None, <<>>, TRUE)
       ELSE Respond(r, 200, Some(CupById(cup_id)), <<>>, TRUE)
    /\ UNCHANGED <<store, cache, now, ticks>>

\* ------------------------------------------------------------ lists
\* select(...).offset(offset).limit(limit): the rows of the table after the
\* first `off` ones, at most `lim` of them when a limit is given (None: no
\* LIMIT clause).  The statement has no ORDER BY; the rows are taken in the
\* order of their ids, and the result is kept as the set of its rows.
Page(table, off, lim) ==
    {x \in table :
        LET rank == Cardinality({y \in table : y.id < x.id}) IN
        /\ rank >= off
        /\ lim # None => rank < off + lim[1]}

\* GET /coffee/?offset=&limit=  (both parameters `int | None = None`)
read_coffees(offset, limit) ==
    /\ LET r == [op |-> "read_coffees", user |-> "", id |-> 0]
           off == IF offset = None THEN 0 ELSE offset[1]
       IN  Respond(r, 200, Some(Page(coffee, off, limit)), <<>>, TRUE)
    /\ UNCHANGED <<store, cache, now, ticks>>

\* GET /cups/?offset=&limit=  (offset: int = 0, limit: Query(le=100) = 100;
\* a limit above 100 fails the validation of the request: 422, the handler
\* does not run)
read_cups(offset, limit) ==
    /\ LET r == [op |-> "read_cups", user |-> "", id |-> 0]
           off == IF offset = None THEN 0 ELSE offset[1]
           lim == IF limit = None THEN LIMIT_DEFAULT ELSE limit[1]
       IN  IF lim > LIMIT_CAP
           THEN Respond(r, 422, None, <<>>, FALSE)
           ELSE Respond(r, 200, Some(Page(cup, off, Some(lim))), <<>>, TRUE)
    /\ UNCHANGED <<store, cache, now, ticks>>

\* ------------------------------------------------------------ GET /coffee/latest
\* cached = await cache_get_json(r, k); if cached: return cached; else the
\* Coffee with the highest id (404 without one) is cached for 300 s and returned
read_latest_coffee_id ==
    /\ LET r == [op |-> "read_latest_coffee_id", user |-> "", id |-> 0]
           c == cache_get_json(key_latest)
       IN  IF c.exc # "" THEN
               /\ RespondCached(r, 500, None, <<>>, FALSE, key_latest)
               /\ cache' = cache
           ELSE IF TruthyCoffee(c.val) THEN
               /\ RespondCached(r, 200, Some(coffee_response(c.val[1])),
                                <<"x-cache", "hit">>, FALSE, key_latest)
               /\ cache' = cache
           ELSE IF coffee = {} THEN
               /\ RespondCached(r, 404, None, <<>>, TRUE, key_latest)
               /\ cache' = cache
           ELSE
               /\ RespondCached(r, 200, Some(coffee_response(LatestCoffee)),
                                <<"x-cache", "miss">>, TRUE, key_latest)
               /\ cache' = cache_set_json(cache, key_latest,
                                          json_dumps_coffee(LatestCoffee), TTL_LATEST)
    /\ UNCHANGED <<store, now, ticks>>

\* ------------------------------------------ the write handlers, step by step
\* The relational part of a write handler, from the opening of its Session
\* to its commit (or to the exception that ends it): the outcome and the
\* store it leaves.
TxOut(status, cf, cp, ncf, ncp, body, r) ==
    [status |-> status, coffee |-> cf, cup |-> cp, nextCoffeeId |-> ncf,
     nextCupId |-> ncp, body |-> body, req |-> r]

create_cup_tx(c) ==
    LET row == [id |-> nextCupId, date_time |-> c.date_time,
                username |-> c.username, coffee_id |-> c.coffee_id]
        r == [op |-> "create_cup", user |-> c.username[1], id |-> row.id]
    IN  IF c.coffee_id[1] \in CoffeeIds
        THEN TxOut(200, coffee, cup \cup {row}, nextCoffeeId, nextCupId + 1, Some(row), r)
        ELSE TxOut(500, coffee, cup, nextCoffeeId, nextCupId + 1, None, r)

perform_drink_tx(username) ==
    LET r == [op |-> "perform_drink", user |-> username, id |-> 0]
        row == [id |-> nextCupId, date_time |-> Some(Today),
                username |-> Some(username), coffee_id |-> Some(LatestCoffee.id)]
    IN  IF coffee = {}
        THEN TxOut(404, coffee, cup, nextCoffeeId, nextCupId, None, r)
        ELSE TxOut(200, coffee, cup \cup {row}, nextCoffeeId, nextCupId + 1, Some(row),
                   [r EXCEPT !.id = row.id])

delete_cup_tx(cup_id) ==
    LET r == [op |-> "delete_cup", user |-> "", id |-> cup_id] IN
    IF cup_id \notin CupIds
    THEN TxOut(404, coffee, cup, nextCoffeeId, nextCupId, None, r)
    ELSE TxOut(500, coffee, cup, nextCoffeeId, nextCupId, None, r)

create_coffee_tx(c) ==
    LET row == [id |-> nextCoffeeId, size_g |-> c.size_g, price |-> c.price,
                roast_date |-> c.roast_date]
    IN  TxOut(200, coffee \cup {row}, cup, nextCoffeeId + 1, nextCupId,
              Some(coffee_response(row)),
              [op |-> "create_coffee", user |-> "", id |-> row.id])

update_coffee_tx(coffee_id, patch) ==
    LET r == [op |-> "update_coffee", user |-> "", id |-> coffee_id] IN
    IF coffee_id \notin CoffeeIds
    THEN TxOut(404, coffee, cup, nextCoffeeId, nextCupId, None, r)
    ELSE LET new == ApplyPatch(CoffeeById(coffee_id), patch) IN
         IF new.size_g = None
         THEN TxOut(500, coffee, cup, nextCoffeeId, nextCupId, None, r)
         ELSE TxOut(200, (coffee \ {CoffeeById(coffee_id)}) \cup {new}, cup,
                    nextCoffeeId, nextCupId, Some(coffee_response(new)), r)

delete_coffee_tx(coffee_id) ==
    LET r == [op |-> "delete_coffee", user |-> "", id |-> coffee_id] IN
    IF coffee_id \notin CoffeeIds
    THEN TxOut(404, coffee, cup, nextCoffeeId, nextCupId, None, r)
    ELSE IF \E c \in cup : c.coffee_id = Some(coffee_id)
    THEN TxOut(500, coffee, cup, nextCoffeeId, nextCupId, None, r)
    ELSE TxOut(200, coffee \ {CoffeeById(coffee_id)}, cup, nextCoffeeId, nextCupId,
               Some([ok |-> TRUE]), r)

update_cup_tx(cup_id, patch) ==
    LET r == [op |-> "update_cup", user |-> "", id |-> cup_id] IN
    IF cup_id \notin CupIds
    THEN TxOut(404, coffee, cup, nextCoffeeId, nextCupId, None, r)
    ELSE LET new == ApplyPatch(CupById(cup_id), patch) IN
         IF \/ \E f \in CupFields : new[f] = None
            \/ new.coffee_id[1] \notin CoffeeIds
         THEN TxOut(500, coffee, cup, nextCoffeeId, nextCupId, None, r)
         ELSE TxOut(200, coffee, (cup \ {CupById(cup_id)}) \cup {new}, nextCoffeeId,
                    nextCupId, Some(new), [r EXCEPT !.user = new.username[1]])

Tx(call) ==
    CASE call.op = "create_cup" -> create_cup_tx(call.arg[1])
      [] call.op = "perform_drink" -> perform_drink_tx(call.user)
      [] call.op = "delete_cup" -> delete_cup_tx(call.id)
      [] call.op = "create_coffee" -> create_coffee_tx(call.arg[1])
      [] call.op = "update_coffee" -> update_coffee_tx(call.id, call.arg[1])
      [] call.op = "delete_coffee" -> delete_coffee_tx(call.id)

\* the keys a write handler deletes, in the order of its cache_del_json calls
WriteKeys(op, user) ==
    CASE op \in {"create_cup", "perform_drink", "delete_cup"} -> CupKeys(user)
      [] op \in {"create_coffee", "update_coffee"} -> CoffeeKeys
      [] op = "delete_coffee" -> DeleteCoffeeKeys

\* (mutant) a handler that deletes its n keys first and commits afterwards
Program_DeleteFirst(n) ==
    [i \in 1..n |-> [t |-> "del", n |-> i]] \o <<[t |-> "tx", n |-> 0], [t |-> "ret", n |-> 0]>>

\* The steps of a write handler that deletes n keys, in the order of its
\* statements: the Session block with its commit, the awaited
\* cache_del_json calls one after the other, the return.
Program(n) ==
    <<[t |-> "tx", n |-> 0]>> \o [i \in 1..n |-> [t |-> "del", n |-> i]]
        \o <<[t |-> "ret", n |-> 0]>>

\* the step the write handler under way is at
Instr(call) == Program(Len(WriteKeys(call.op, call.user)))[call.pc]

\* the handler's answer; unlike Respond it says nothing about calls
Reply(r, status, body, hdr, db, seen) ==
    /\ req' = r
    /\ resp' = [status |-> status, body |-> body, hdr |-> hdr, db |-> db, seen |-> seen]

\* a write request arrives and its handler is called (req/resp, the request
\* answered last, are cleared as by every step that answers none)
w_begin(op, user, id, arg) ==
    /\ calls.w.op = ""
    /\ op \in {"create_cup", "perform_drink"} => nextCupId <= MaxCups
    /\ op = "create_coffee" => nextCoffeeId <= MaxCoffees
    /\ calls' = [calls EXCEPT !.w = [NoCall EXCEPT !.op = op, !.user = user, !.id = id,
                                                   !.arg = arg, !.pc = 1]]
    /\ req' = NoReq
    /\ resp' = NoResp
    /\ UNCHANGED <<store, cache, now, ticks, redis_client, lifespan>>

\* the Session block: the handler raises or commits
w_tx ==
    /\ calls.w.op # ""
    /\ Instr(calls.w).t = "tx"
    /\ LET t == Tx(calls.w) IN
       /\ coffee' = t.coffee
       /\ cup' = t.cup
       /\ nextCoffeeId' = t.nextCoffeeId
       /\ nextCupId' = t.nextCupId
       /\ IF t.status = 200
          THEN /\ calls' = [calls EXCEPT !.w.pc = @ + 1, !.w.committed = TRUE,
                                         !.w.body = t.body, !.w.id = t.req.id]
               /\ UNCHANGED <<req, resp>>
          ELSE /\ calls' = [calls EXCEPT !.w = NoCall]
               /\ Reply(t.req, t.status, None, <<>>, TRUE, "")
    /\ UNCHANGED <<cache, now, ticks, redis_client, lifespan>>

\* await cache_del_json(r, key): the next key of the handler is deleted
w_del ==
    /\ calls.w.op # ""
    /\ Instr(calls.w).t = "del"
    /\ cache' = cache_del_json(cache, WriteKeys(calls.w.op, calls.w.user)[Instr(calls.w).n])
    /\ calls' = [calls EXCEPT !.w.pc = @ + 1]
    /\ UNCHANGED <<store, now, ticks, req, resp, redis_client, lifespan>>

\* await r.delete(key) raises (Redis is not reachable): the exception leaves
\* cache_del_json and the handler, the request is answered with 500
w_del_fails ==
    /\ calls.w.op # ""
    /\ Instr(calls.w).t = "del"
    /\ calls' = [calls EXCEPT !.w = NoCall]
    /\ Reply([op |-> calls.w.op, user |-> calls.w.user, id |-> calls.w.id],
             500, None, <<>>, TRUE, "")
    /\ UNCHANGED <<store, cache, now, ticks, redis_client, lifespan>>

\* the handler returns
w_ret ==
    /\ calls.w.op # ""
    /\ Instr(calls.w).t = "ret"
    /\ calls' = [calls EXCEPT !.w = NoCall]
    /\ Reply([op |-> calls.w.op, user |-> calls.w.user, id |-> calls.w.id],
             200, calls.w.body, <<>>, TRUE, "")
    /\ UNCHANGED <<store, cache, now, ticks, redis_client, lifespan>>

\* ------------------------------------------------- the request in `req`
CacheableOps == {"read_latest_coffee_id", "get_coffee_count_total",
                 "get_coffee_count_total_username", "get_coffee_count_today",
                 "get_coffee_count_today_username"}

\* the key a cacheable handler reads and writes
ReadKey(r) ==
    CASE r.op = "read_latest_coffee_id" -> key_latest
      [] r.op = "get_coffee_count_total" -> key_total
      [] r.op = "get_coffee_count_total_username" -> key_total_user(r.user)
      [] r.op = "get_coffee_count_today" -> key_today
      [] r.op = "get_coffee_count_today_username" -> key_today_user(r.user)

\* the ttl it writes the key with
ReadTtl(r) ==
    CASE r.op = "read_latest_coffee_id" -> TTL_LATEST
      [] r.op = "get_coffee_count_total" -> TTL_TOTAL
      [] r.op = "get_coffee_count_total_username" -> TTL_TOTAL_USER
      [] r.op = "get_coffee_count_today" -> TTL_TODAY
      [] r.op = "get_coffee_count_today_username" -> TTL_TODAY_USER

\* the ttl the handlers write key k with
KeyTtl(k) ==
    CASE k = key_latest -> TTL_LATEST
      [] k = key_total -> TTL_TOTAL
      [] k = key_today -> TTL_TODAY
      [] k \in {key_total_user(u) : u \in Users} -> TTL_TOTAL_USER
      [] k \in {key_today_user(u) : u \in Users} -> TTL_TODAY_USER

\* the value it computes from the store
ReadStore(r) ==
    CASE r.op = "read_latest_coffee_id" -> coffee_response(LatestCoffee)
      [] r.op = "get_coffee_count_total" -> CountTotal
      [] r.op = "get_coffee_count_total_username" -> CountTotalUser(r.user)
      [] r.op = "get_coffee_count_today" -> CountToday
      [] r.op = "get_coffee_count_today_username" -> CountTodayUser(r.user)

\* the response headers that mark a hit and a miss (whatever the header's
\* name and the blanks around the value)
IsHit(h) == Len(h) = 2 /\ h[2] \in {"hit", " hit"}
IsMiss(h) == Len(h) = 2 /\ h[2] \in {"miss", " miss"}

\* the response body of a cacheable read that returns the stored entry e
EntryBody(r, e) ==
    IF r.op = "read_latest_coffee_id"
    THEN Some(coffee_response(json_loads(e.data).val[1]))
    ELSE json_loads(e.data).val

\* ------------------------------------ the cacheable reads, step by step
\* response.headers[...] of each cacheable handler
ReadHeader(r, hit) ==
    CASE r.op = "get_coffee_count_total" -> <<"x-cache", IF hit THEN " hit" ELSE " miss">>
      [] r.op = "get_coffee_count_total_username" ->
            <<"x-cached", IF hit THEN "hit" ELSE "miss">>
      [] OTHER -> <<"x-cache", IF hit THEN "hit" ELSE "miss">>

\* what the handler passes to cache_set_json, as json.dumps stores it
ReadDumps(r) ==
    IF r.op = "read_latest_coffee_id"
    THEN json_dumps_coffee(LatestCoffee)
    ELSE json_dumps_int(ReadStore(r))

\* (mutant) a hit that stores the value again, with a new expiry
r_lookup_touch(r) ==
    /\ calls.r.op = ""
    /\ LET k == ReadKey(r)
           c == cache_get_json(k)
           seen == IF Present(k) THEN cache[k].data.kind ELSE ""
       IN  IF c.exc # "" THEN
               /\ Reply(r, 500, None, <<>>, FALSE, seen)
               /\ UNCHANGED <<calls, cache>>
           ELSE IF (IF r.op = "read_latest_coffee_id" THEN TruthyCoffee(c.val)
                                                     ELSE TruthyCount(c.val)) THEN
               /\ Reply(r, 200, EntryBody(r, cache[k]), ReadHeader(r, TRUE), FALSE, seen)
               /\ cache' = cache_set_json(cache, k, cache[k].data, ReadTtl(r))
               /\ UNCHANGED calls
           ELSE
               /\ calls' = [calls EXCEPT !.r = [NoCall EXCEPT !.op = r.op, !.user = r.user,
                                                              !.arg = Some(seen), !.pc = 1]]
               /\ req' = NoReq
               /\ resp' = NoResp
               /\ cache' = cache
    /\ UNCHANGED <<store, now, ticks, redis_client, lifespan>>

\* cached = await cache_get_json(r, k); if cached: mark the hit and return it
r_lookup(r) ==
    /\ calls.r.op = ""
    /\ LET k == ReadKey(r)
           c == cache_get_json(k)
           seen == IF Present(k) THEN cache[k].data.kind ELSE ""
       IN  IF c.exc # "" THEN
               /\ Reply(r, 500, None, <<>>, FALSE, seen)
               /\ UNCHANGED calls
           ELSE IF (IF r.op = "read_latest_coffee_id" THEN TruthyCoffee(c.val)
                                                     ELSE TruthyCount(c.val)) THEN
               /\ Reply(r, 200, EntryBody(r, cache[k]), ReadHeader(r, TRUE), FALSE, seen)
               /\ UNCHANGED calls
           ELSE
               /\ calls' = [calls EXCEPT !.r = [NoCall EXCEPT !.op = r.op, !.user = r.user,
                                                              !.arg = Some(seen), !.pc = 1]]
               /\ req' = NoReq
               /\ resp' = NoResp
    /\ UNCHANGED <<store, cache, now, ticks, redis_client, lifespan>>

\* the Session block of the read: the count, or the latest Coffee (404
\* without one)
r_query ==
    /\ calls.r.op # ""
    /\ calls.r.pc = 1
    /\ LET r == [op |-> calls.r.op, user |-> calls.r.user, id |-> 0] IN
       IF r.op = "read_latest_coffee_id" /\ coffee = {}
       THEN /\ Reply(r, 404, None, <<>>, TRUE, calls.r.arg[1])
            /\ calls' = [calls EXCEPT !.r = NoCall]
       ELSE /\ calls' = [calls EXCEPT !.r.pc = 2, !.r.val = Some(ReadDumps(r)),
                                      !.r.body = Some(ReadStore(r))]
            /\ UNCHANGED <<req, resp>>
    /\ UNCHANGED <<store, cache, now, ticks, redis_client, lifespan>>

\* mark the miss, await cache_set_json(r, k, value, ttl) and return the value
r_set ==
    /\ calls.r.op # ""
    /\ calls.r.pc = 2
    /\ LET r == [op |-> calls.r.op, user |-> calls.r.user, id |-> 0] IN
       /\ cache' = cache_set_json(cache, ReadKey(r), calls.r.val[1], ReadTtl(r))
       /\ Reply(r, 200, calls.r.body, ReadHeader(r, FALSE), TRUE, calls.r.arg[1])
    /\ calls' = [calls EXCEPT !.r = NoCall]
    /\ UNCHANGED <<store, now, ticks, redis_client, lifespan>>

\* ------------------------------------------------ the application lifespan
\* redis_client = Redis.from_url(...)
lifespan_from_url ==
    /\ lifespan.pc = "from_url"
    /\ redis_client' = Some(Client)
    /\ lifespan' = [lifespan EXCEPT !.pc = "ping", !.created = @ + 1]
    /\ UNCHANGED <<store, cache, now, ticks, req, resp, calls>>

\* (mutant) the ping outside of try/finally: a failure leaves the generator
lifespan_ping_unguarded(ok) ==
    /\ lifespan.pc = "ping"
    /\ lifespan' = IF ok THEN [lifespan EXCEPT !.pc = "yield"]
                       ELSE [lifespan EXCEPT !.pc = "done", !.exc = "ConnectionError"]
    /\ UNCHANGED <<store, cache, now, ticks, req, resp, calls, redis_client>>

\* try: await redis_client.ping(): the generator goes on to its yield, or the
\* exception takes it to the finally block
lifespan_ping(ok) ==
    /\ lifespan.pc = "ping"
    /\ lifespan' = IF ok THEN [lifespan EXCEPT !.pc = "yield"]
                       ELSE [lifespan EXCEPT !.pc = "finally", !.exc = "ConnectionError"]
    /\ UNCHANGED <<store, cache, now, ticks, req, resp, calls, redis_client>>

\* the application shuts down: the yield returns, or raises e
lifespan_exit(e) ==
    /\ lifespan.pc = "yield"
    /\ calls = NoCalls
    /\ lifespan' = [lifespan EXCEPT !.pc = "finally", !.exc = e]
    /\ UNCHANGED <<store, cache, now, ticks, req, resp, calls, redis_client>>

\* finally: if redis_client: await redis_client.aclose()
lifespan_finally ==
    /\ lifespan.pc = "finally"
    /\ redis_client' = IF redis_client # None THEN Some([closed |-> TRUE])
                                             ELSE redis_client
    /\ lifespan' = [lifespan EXCEPT !.pc = "done"]
    /\ UNCHANGED <<store, cache, now, ticks, req, resp, calls>>

\* assert redis_client is not None; return redis_client
get_redis ==
    IF redis_client = None THEN [exc |-> "AssertionError", val |-> None]
                           ELSE [exc |-> "", val |-> redis_client]

\* a request that arrives while the application serves: Depends(get_redis)
\* is resolved, then the handler runs
Served(handler) ==
    /\ lifespan.pc = "yield"
    /\ IF get_redis.exc # ""
       THEN /\ Respond([op |-> "get_redis", user |-> "", id |-> 0], 500, None, <<>>, FALSE)
            /\ UNCHANGED <<store, cache, now, ticks>>
       ELSE handler

\* ------------------------------------------------------------ the environment
\* Another client of the same Redis stores bytes under a key of this
\* namespace: bytes that are no JSON text, or that are no UTF-8 text.
ForeignKinds == {"notjson", "badutf8"}
ForeignWrite(k, kind) ==
    /\ cache' = [x \in DOMAIN cache \cup {k} |->
                    IF x = k
                    THEN [data |-> [kind |-> kind, val |-> None],
                          exp |-> now + TTL_LATEST, at |-> now]
                    ELSE cache[x]]
    /\ req' = NoReq
    /\ resp' = NoResp
    /\ UNCHANGED <<store, now, ticks, calls, redis_client, lifespan>>

\* ------------------------------------------------------- specifications
\* The Cup writes and the four counters.  The counters read no column of a
\* Coffee, so one Coffee row is created here; the Cups submitted are dated
\* on the day the clock starts, those of perform_drink on the current day.
CountCoffeePayloads == {c \in CoffeePayloads : c.price = None}
CountCupPayloads == {c \in CupPayloads : c.coffee_id = Some(1) /\ c.date_time = Some(0)}

NextCount ==
    \/ Tick(ShortTick)
    \/ get_coffee_count_total
    \/ \E u \in Users : get_coffee_count_total_username(u)
    \/ get_coffee_count_today
    \/ \E u \in Users : get_coffee_count_today_username(u)
    \/ \E c \in CountCoffeePayloads : coffee = {} /\ create_coffee(c)
    \/ \E c \in CountCupPayloads : create_cup(c)
    \/ \E u \in Users : perform_drink(u)
    \/ \E i \in 1..MaxCups : delete_cup(i)

SpecCount == Init /\ [][NextCount]_vars

\* The Cup writes with PATCH /cups/{cup_id}, the clock standing still.
NextCupUpdate ==
    \/ get_coffee_count_total
    \/ \E u \in Users : get_coffee_count_total_username(u)
    \/ get_coffee_count_today
    \/ \E u \in Users : get_coffee_count_today_username(u)
    \/ \E c \in CountCoffeePayloads : coffee = {} /\ create_coffee(c)
    \/ \E c \in CountCupPayloads : create_cup(c)
    \/ \E i \in 1..MaxCups, p \in CupPatches : update_cup(i, p)

SpecCupUpdate == Init /\ [][NextCupUpdate]_vars

\* The five cacheable reads between clock steps shorter and longer than the
\* time-to-live of the keys, with the writes that feed them (one user).
NextTtl ==
    \/ \E d \in TickSteps : Tick(d)
    \/ read_latest_coffee_id
    \/ get_coffee_count_total
    \/ get_coffee_count_total_username("alice")
    \/ get_coffee_count_today
    \/ get_coffee_count_today_username("alice")
    \/ \E c \in CountCoffeePayloads : coffee = {} /\ create_coffee(c)
    \/ perform_drink("alice")

SpecTtl == Init /\ [][NextTtl]_vars

\* The Coffee writes, GET /coffee/latest and the drink action, with the two
\* counters whose keys delete_coffee deletes.
NextCoffee ==
    \/ \E c \in CoffeePayloads : create_coffee(c)
    \/ \E i \in 1..MaxCoffees, p \in CoffeePatches : update_coffee(i, p)
    \/ \E i \in 1..MaxCoffees : delete_coffee(i)
    \/ read_latest_coffee_id
    \/ \E u \in Users : perform_drink(u)
    \/ get_coffee_count_total
    \/ get_coffee_count_today

SpecCoffee == Init /\ [][NextCoffee]_vars

\* The requests by id, on ids that exist and ids that do not, with two
\* cacheable reads that fill keys.
NextById ==
    \/ \E c \in CountCoffeePayloads : create_coffee(c)
    \/ perform_drink("alice")
    \/ \E i \in 1..MaxCoffees : read_coffee(i)
    \/ \E i \in 1..MaxCoffees, p \in CoffeePatches : update_coffee(i, p)
    \/ \E i \in 1..MaxCoffees : delete_coffee(i)
    \/ \E i \in 1..MaxCups : read_cup(i)
    \/ \E i \in 1..MaxCups, p \in CupPatches : update_cup(i, p)
    \/ \E i \in 1..MaxCups : delete_cup(i)
    \/ get_coffee_count_total
    \/ read_latest_coffee_id

SpecById == Init /\ [][NextById]_vars

\* The five cacheable reads of one user against a Redis in which another
\* client stores bytes under the keys of the service.
ForeignKeys == {key_latest, key_total, key_total_user("alice"), key_today,
                key_today_user("alice")}

NextForeign ==
    \/ \E k \in ForeignKeys, kind \in ForeignKinds : ForeignWrite(k, kind)
    \/ read_latest_coffee_id
    \/ get_coffee_count_total
    \/ get_coffee_count_total_username("alice")
    \/ get_coffee_count_today
    \/ get_coffee_count_today_username("alice")
    \/ \E c \in CountCoffeePayloads : coffee = {} /\ create_coffee(c)
    \/ perform_drink("alice")

SpecForeign == Init /\ [][NextForeign]_vars

\* POST /cups/ with the coffee_id of a Coffee that exists and of one that
\* does not, between reads that fill the four counter keys.
FkCupPayloads == {c \in CupPayloads : c.date_time = Some(0)}

NextFk ==
    \/ \E c \in CountCoffeePayloads : coffee = {} /\ create_coffee(c)
    \/ \E c \in FkCupPayloads : create_cup(c)
    \/ get_coffee_count_total
    \/ \E u \in Users : get_coffee_count_total_username(u)
    \/ get_coffee_count_today
    \/ \E u \in Users : get_coffee_count_today_username(u)

SpecFk == Init /\ [][NextFk]_vars

\* The write handlers step by step, Redis failing or not at a deletion.  The
\* cacheable reads that fill the keys are served between two writes, where
\* the clock also moves, by the time-to-live of the total key.
StepCupPayloads == {c \in CountCupPayloads : c.username = Some("alice")}
StepCoffeePatches == {p \in CoffeePatches : p.set # {}}
StepIds == {1}

NextSteps ==
    \/ \E c \in StepCupPayloads : w_begin("create_cup", c.username[1], 0, Some(c))
    \/ w_begin("perform_drink", "alice", 0, None)
    \/ \E i \in StepIds : w_begin("delete_cup", "", i, None)
    \/ \E c \in CountCoffeePayloads : w_begin("create_coffee", "", 0, Some(c))
    \/ \E i \in StepIds, p \in StepCoffeePatches : w_begin("update_coffee", "", i, Some(p))
    \/ \E i \in StepIds : w_begin("delete_coffee", "", i, None)
    \/ w_tx
    \/ w_del
    \/ w_del_fails
    \/ w_ret
    \/ calls.w.op = "" /\ read_latest_coffee_id
    \/ calls.w.op = "" /\ get_coffee_count_total
    \/ calls.w.op = "" /\ Tick(TTL_TOTAL)

SpecSteps == Init /\ [][NextSteps]_vars

\* Every write of both tables, with Cup payloads and patches that name stored
\* and missing Coffee ids.
RefCupPatches == {p \in CupPatches : p.set = {"coffee_id"}}

NextRef ==
    \/ \E c \in CountCoffeePayloads : create_coffee(c)
    \/ \E i \in 1..MaxCoffees, p \in StepCoffeePatches : update_coffee(i, p)
    \/ \E i \in 1..MaxCoffees : delete_coffee(i)
    \/ \E c \in FkCupPayloads : create_cup(c)
    \/ \E u \in Users : perform_drink(u)
    \/ \E i \in 1..MaxCups, p \in RefCupPatches : update_cup(i, p)
    \/ \E i \in 1..MaxCups : delete_cup(i)

SpecRef == Init /\ [][NextRef]_vars

\* The Cup writes of two usernames over a cache that holds the latest-coffee
\* entry and the per-user entries of both.
NextFrame ==
    \/ \E c \in CountCoffeePayloads : coffee = {} /\ create_coffee(c)
    \/ read_latest_coffee_id
    \/ \E u \in Users : get_coffee_count_total_username(u)
    \/ \E u \in Users : get_coffee_count_today_username(u)
    \/ \E c \in CountCupPayloads : create_cup(c)
    \/ \E u \in Users : perform_drink(u)
    \/ \E i \in 1..MaxCups : delete_cup(i)

SpecFrame == Init /\ [][NextFrame]_vars

\* Every write over caches that are empty, stale (a read of the latest Coffee
\* that a create_coffee overtakes) or corrupt (a foreign write).
OwnRead == [op |-> "read_latest_coffee_id", user |-> "", id |-> 0]
OwnCupPatches == {p \in CupPatches : p.set # {}}

NextOwn ==
    \/ \E c \in CountCoffeePayloads : create_coffee(c)
    \/ \E i \in StepIds, p \in StepCoffeePatches : update_coffee(i, p)
    \/ \E i \in StepIds : delete_coffee(i)
    \/ \E c \in StepCupPayloads : create_cup(c)
    \/ perform_drink("alice")
    \/ \E i \in StepIds, p \in OwnCupPatches : update_cup(i, p)
    \/ \E i \in StepIds : delete_cup(i)
    \/ r_lookup(OwnRead)
    \/ r_query
    \/ r_set
    \/ \E kind \in ForeignKinds : ForeignWrite(key_latest, kind)

SpecOwn == Init /\ [][NextOwn]_vars

\* The application from process start to the end of its lifespan, serving
\* requests in between.
InitLife ==
    /\ coffee = {}
    /\ cup = {}
    /\ nextCoffeeId = 1
    /\ nextCupId = 1
    /\ cache = <<>>
    /\ now = StartTime
    /\ ticks = 0
    /\ req = NoReq
    /\ resp = NoResp
    /\ calls = NoCalls
    /\ redis_client = None
    /\ lifespan = NotStarted

ExitExceptions == {"", "CancelledError"}

NextLife ==
    \/ lifespan_from_url
    \/ \E ok \in BOOLEAN : lifespan_ping(ok)
    \/ \E e \in ExitExceptions : lifespan_exit(e)
    \/ lifespan_finally
    \/ \E c \in CountCoffeePayloads : Served(coffee = {} /\ create_coffee(c))
    \/ Served(perform_drink("alice"))
    \/ Served(read_latest_coffee_id)
    \/ Served(get_coffee_count_total)

SpecLife == InitLife /\ [][NextLife]_vars

\* A cacheable read step by step among whole writes and clock steps: the
\* writes may fall between its store query and its cache write.
RaceReads == {[op |-> "get_coffee_count_total", user |-> "", id |-> 0],
              [op |-> "get_coffee_count_today", user |-> "", id |-> 0]}

NextRace ==
    \/ \E r \in RaceReads : r_lookup(r)
    \/ r_query
    \/ r_set
    \/ \E c \in CountCoffeePayloads : coffee = {} /\ create_coffee(c)
    \/ \E c \in StepCupPayloads : create_cup(c)
    \/ \E d \in TickSteps : Tick(d)

SpecRace == Init /\ [][NextRace]_vars

\* The list requests over tables that hold no row or one row more than the
\* cap (Cups of alice, all of Coffee 1), and over the tables the writes build.
ListSizes == {0, LIMIT_CAP + 1}
ListOffsets == {None, Some(0), Some(1), Some(LIMIT_CAP)}
ListLimits == {None, Some(1), Some(LIMIT_CAP), Some(LIMIT_CAP + 1)}

InitList ==
    \E nc \in ListSizes, nk \in ListSizes :
        /\ nk > 0 => nc > 0
        /\ coffee = {[id |-> i, size_g |-> Some(250), price |-> None,
                      roast_date |-> None] : i \in 1..nc}
        /\ cup = {[id |-> i, date_time |-> Some(0), username |-> Some("alice"),
                   coffee_id |-> Some(1)] : i \in 1..nk}
        /\ nextCoffeeId = nc + 1
        /\ nextCupId = nk + 1
        /\ cache = <<>>
        /\ now = StartTime
        /\ ticks = 0
        /\ req = NoReq
        /\ resp = NoResp
        /\ calls = NoCalls
        /\ redis_client = Some(Client)
        /\ lifespan = Serving

NextList ==
    \/ \E o \in ListOffsets, l \in ListLimits : read_coffees(o, l)
    \/ \E o \in ListOffsets, l \in ListLimits : read_cups(o, l)
    \/ \E c \in CountCoffeePayloads : create_coffee(c)
    \/ perform_drink("alice")

SpecList == InitList /\ [][NextList]_vars

\* ------------------------------------------------------------ claims
\* C1 as stated: every count read returns exactly the number of matching Cup
\* rows in the store at the time of the read (and a user with no cups reads 0).
C1_CountReadsExact ==
    /\ req.op = "get_coffee_count_total" =>
         resp.status = 200 /\ resp.body = Some(CountTotal)
    /\ req.op = "get_coffee_count_total_username" =>
         resp.status = 200 /\ resp.body = Some(CountTotalUser(req.user))
    /\ req.op = "get_coffee_count_today" =>
         resp.status = 200 /\ resp.body = Some(CountToday)
    /\ req.op = "get_coffee_count_today_username" =>
         resp.status = 200 /\ resp.body = Some(CountTodayUser(req.user))

\* C1 amended: total and total-by-user reads return exactly the number of
\* matching rows at the time of the read.  A today or today-by-user read
\* returns the number of matching rows dated on or after the calendar day on
\* which the returned value was computed from the store, less than the key's
\* ttl before the read: the count at the time of the read unless midnight
\* passed since the value was cached.
C1_CountReadsReflectWrites ==
    /\ req.op = "get_coffee_count_total" =>
         resp.status = 200 /\ resp.body = Some(CountTotal)
    /\ req.op = "get_coffee_count_total_username" =>
         resp.status = 200 /\ resp.body = Some(CountTotalUser(req.user))
    /\ req.op = "get_coffee_count_today" =>
         LET e == cache[key_today]
             day == e.at \div DayLen
         IN  /\ resp.status = 200
             /\ Present(key_today) /\ e.at <= now /\ now - e.at < TTL_TODAY
             /\ resp.body = Some(Cardinality({c \in cup : c.date_time[1] >= day}))
             /\ day = Today => resp.body = Some(CountToday)
    /\ req.op = "get_coffee_count_today_username" =>
         LET e == cache[key_today_user(req.user)]
             day == e.at \div DayLen
         IN  /\ resp.status = 200
             /\ Present(key_today_user(req.user)) /\ e.at <= now /\ now - e.at < TTL_TODAY_USER
             /\ resp.body = Some(Cardinality({c \in cup :
                    c.username = Some(req.user) /\ c.date_time[1] >= day}))
             /\ day = Today => resp.body = Some(CountTodayUser(req.user))

\* C1 witness: after a second Cup was created, a read of total is recomputed
\* from the store and returns 2, while a user without cups has read 0
C1_Witness ==
    /\ req.op = "get_coffee_count_total"
    /\ resp.hdr = <<"x-cache", " miss">>
    /\ resp.body = Some(2)
    /\ \E u \in Users :
        /\ CountTotalUser(u) = 0
        /\ Present(key_total_user(u))
        /\ cache[key_total_user(u)].data = json_dumps_int(0)

\* C2 as stated: a successful update_cup leaves none of the keys today,
\* total, today-by-user(u), total-by-user(u) in the cache, u the username of
\* the cup after the update.
C2_UpdateCupDeletesKeys ==
    (req.op = "update_cup" /\ resp.status = 200) =>
        \A i \in 1..Len(CupKeys(req.user)) : ~Present(CupKeys(req.user)[i])

\* C3 as stated: a cacheable read that finds its key holding the value an
\* earlier miss stored (no write and no expiry since) returns that value, is
\* marked a hit and does not query the store, whatever the value (0 too).
C3_RoundTrip ==
    (req.op \in CacheableOps /\ resp.seen = "json") =>
        /\ resp.status = 200
        /\ IsHit(resp.hdr)
        /\ ~resp.db
        /\ Present(ReadKey(req))
        /\ resp.body = EntryBody(req, cache[ReadKey(req)])

\* C4: the value a cacheable read returns is the one held under its key,
\* computed from the store at most the key's time-to-live before the read.
C4_StalenessBound ==
    (req.op \in CacheableOps /\ resp.status = 200) =>
        LET e == cache[ReadKey(req)] IN
        /\ Present(ReadKey(req))
        /\ resp.body = EntryBody(req, e)
        /\ e.at <= now
        /\ now - e.at <= ReadTtl(req)
        /\ IsMiss(resp.hdr) => e.at = now

\* C4 witness: a hit served from a value computed ShortTick seconds earlier
C4_Witness ==
    /\ req.op \in CacheableOps
    /\ resp.status = 200
    /\ IsHit(resp.hdr)
    /\ Present(ReadKey(req))
    /\ now - cache[ReadKey(req)].at = ShortTick

\* C5: after create_coffee or a successful update_coffee the latest-coffee
\* key is gone, and GET /coffee/latest returns the highest-id Coffee as the
\* store holds it at the time of the read.
C5_CoffeeWriteInvalidatesLatest ==
    /\ (req.op \in {"create_coffee", "update_coffee"} /\ resp.status = 200) =>
          ~Present(key_latest)
    /\ (req.op = "read_latest_coffee_id" /\ resp.status = 200) =>
          /\ coffee # {}
          /\ resp.body = Some(coffee_response(LatestCoffee))

\* C5 witness: GET /coffee/latest is served from the cache with the price
\* that an update_coffee stored
C5_Witness ==
    /\ req.op = "read_latest_coffee_id"
    /\ resp.status = 200
    /\ IsHit(resp.hdr)
    /\ resp.body # None
    /\ resp.body[1].price = Some(12)

\* C6: after a successful delete_coffee the row is gone and none of the keys
\* latest-coffee, today, total is in the cache; GET /coffee/latest returns
\* only a Coffee that is in the store.
C6_DeleteCoffeeInvalidates ==
    /\ (req.op = "delete_coffee" /\ resp.status = 200) =>
          /\ req.id \notin CoffeeIds
          /\ ~Present(key_latest) /\ ~Present(key_today) /\ ~Present(key_total)
    /\ (req.op = "read_latest_coffee_id" /\ resp.status = 200) =>
          /\ resp.body # None
          /\ resp.body[1].id \in CoffeeIds

\* C6 witness: GET /coffee/latest returns Coffee 1 after Coffee 2 was deleted
C6_Witness ==
    /\ req.op = "read_latest_coffee_id"
    /\ resp.status = 200
    /\ resp.body # None
    /\ resp.body[1].id = 1
    /\ nextCoffeeId = 3
    /\ CoffeeIds = {1}

\* C7 as stated: a cacheable read that finds bytes under its key which do not
\* deserialize ends as if the key were absent (store value, miss, key
\* rewritten with the fixed ttl), and no cacheable read ends in a server error.
C7_CorruptEntryIsMiss ==
    /\ req.op \in CacheableOps => resp.status # 500
    /\ (req.op \in CacheableOps /\ resp.seen \in ForeignKinds /\ resp.status = 200) =>
          /\ IsMiss(resp.hdr)
          /\ resp.db
          /\ resp.body = Some(ReadStore(req))
          /\ Present(ReadKey(req))
          /\ cache[ReadKey(req)].exp = now + ReadTtl(req)

\* C8: a request by id (get, partial update, delete; Coffee or Cup) for an id
\* that is not in its table ends with 404 and changes neither the store nor
\* the cache.
C8_NotFoundBeforeMutation ==
    [][ /\ (req'.op \in {"read_coffee", "update_coffee", "delete_coffee"}
            /\ req'.id \notin CoffeeIds)
          => (resp'.status = 404 /\ UNCHANGED <<store, cache>>)
        /\ (req'.op \in {"read_cup", "update_cup", "delete_cup"}
            /\ req'.id \notin CupIds)
          => (resp'.status = 404 /\ UNCHANGED <<store, cache>>)
      ]_vars

\* C8 witness: a delete of a Cup id that is not in the table ended with 404
\* while rows and cache keys exist
C8_Witness ==
    /\ req.op = "delete_cup"
    /\ resp.status = 404
    /\ cup # {}
    /\ coffee # {}
    /\ Present(key_total)
    /\ Present(key_latest)

\* C9: perform_drink(username) without a Coffee row ends with 404 and inserts
\* nothing; otherwise it inserts exactly one Cup, with the given username and
\* the highest id among the Coffee rows.
C9_PerformDrink ==
    [][ req'.op = "perform_drink" =>
          IF coffee = {}
          THEN resp'.status = 404 /\ UNCHANGED store
          ELSE /\ resp'.status = 200
               /\ UNCHANGED <<coffee, nextCoffeeId>>
               /\ \E row \in cup' :
                    /\ row \notin cup
                    /\ cup' = cup \cup {row}
                    /\ row.username = Some(req'.user)
                    /\ row.coffee_id[1] \in CoffeeIds
                    /\ \A i \in CoffeeIds : i <= row.coffee_id[1]
      ]_vars

\* C9 witness: with Coffees 1 and 2 in the store a drink made a Cup of Coffee 2
C9_Witness ==
    /\ req.op = "perform_drink"
    /\ resp.status = 200
    /\ CoffeeIds = {1, 2}
    /\ resp.body # None
    /\ resp.body[1].coffee_id = Some(2)
    /\ resp.body[1] \in cup

\* C10: GET /coffee/latest with an empty Coffee table ends with 404, and
\* after a 404 the latest-coffee key is not in the cache.
C10_LatestEmptyIs404 ==
    req.op = "read_latest_coffee_id" =>
        /\ coffee = {} => resp.status = 404
        /\ resp.status = 404 => (coffee = {} /\ ~Present(key_latest))

\* C10 witness: 404 after the only Coffee, once created, was deleted
C10_Witness ==
    /\ req.op = "read_latest_coffee_id"
    /\ resp.status = 404
    /\ nextCoffeeId > 1
    /\ coffee = {}

\* C11: a PATCH of an existing Coffee or Cup whose body the store accepts (no
\* null for a NOT NULL column, coffee_id of an existing Coffee) succeeds and
\* changes exactly the fields the body holds: every other field, the id and
\* every other row keep their values, and applying the same body once more
\* changes nothing.  A PATCH the store refuses changes nothing.
C11_PartialUpdate ==
    [][ /\ \A i \in 1..MaxCoffees, p \in CoffeePatches :
             (i \in CoffeeIds /\ update_coffee(i, p)) =>
                LET old == CoffeeById(i) IN
                IF \A f \in p.set \cap CoffeeNotNull : p.val[f] # None
                THEN /\ resp'.status = 200
                     /\ UNCHANGED <<cup, nextCoffeeId, nextCupId>>
                     /\ \E new \in coffee' :
                          /\ new.id = i
                          /\ coffee' = (coffee \ {old}) \cup {new}
                          /\ \A f \in CoffeeFields :
                               new[f] = IF f \in p.set THEN p.val[f] ELSE old[f]
                          /\ ApplyPatch(new, p) = new
                ELSE resp'.status # 200 /\ UNCHANGED store
        /\ \A i \in 1..MaxCups, p \in CupPatches :
             (i \in CupIds /\ update_cup(i, p)) =>
                LET old == CupById(i) IN
                IF /\ \A f \in p.set \cap CupNotNull : p.val[f] # None
                   /\ "coffee_id" \in p.set => p.val.coffee_id[1] \in CoffeeIds
                THEN /\ resp'.status = 200
                     /\ UNCHANGED <<coffee, nextCoffeeId, nextCupId>>
                     /\ \E new \in cup' :
                          /\ new.id = i
                          /\ cup' = (cup \ {old}) \cup {new}
                          /\ \A f \in CupFields :
                               new[f] = IF f \in p.set THEN p.val[f] ELSE old[f]
                          /\ ApplyPatch(new, p) = new
                ELSE resp'.status # 200 /\ UNCHANGED store
      ]_vars

\* C11 witness: a PATCH that holds only price answered with the row: the new
\* price, size_g and id as they were
C11_Witness ==
    /\ req.op = "update_coffee"
    /\ resp.status = 200
    /\ resp.body # None
    /\ resp.body[1].price = Some(12)
    /\ resp.body[1].size_g = Some(250)
    /\ resp.body[1].id = req.id
    /\ \E c \in coffee : c.id = req.id /\ c.price = Some(12) /\ c.size_g = Some(250)

\* C12 as stated: a list response of either entity holds at most 100 rows,
\* whatever offset and limit the request carries (none, or a limit above 100).
C12_ListCapped ==
    (req.op \in {"read_coffees", "read_cups"} /\ resp.status = 200) =>
        Cardinality(resp.body[1]) <= LIMIT_CAP

\* C13: a create_cup whose coffee_id is the id of no Coffee row ends in an
\* error, adds no Cup row and deletes no cache key.
C13_CreateCupForeignKey ==
    [][ \A c \in CupPayloads :
          (create_cup(c) /\ c.coffee_id[1] \notin CoffeeIds) =>
             /\ resp'.status = 500
             /\ UNCHANGED <<cup, coffee, cache>>
      ]_vars

\* C13 witness: a refused create_cup while a Cup is stored and its count of 1
\* is cached under the total key
C13_Witness ==
    /\ req.op = "create_cup"
    /\ resp.status = 500
    /\ req.id \notin CupIds
    /\ Cardinality(cup) = 1
    /\ Present(key_total)
    /\ cache[key_total].data = json_dumps_int(1)

\* C14: a miss leaves its key with the expiry 300 s (latest coffee), 30 s
\* (total, total-by-user, today-by-user) or 10 s (today) after the write, and
\* every entry the handlers wrote expires that long after it was written.
C14_FixedTtl ==
    /\ (req.op \in CacheableOps /\ IsMiss(resp.hdr)) =>
          /\ Present(ReadKey(req))
          /\ cache[ReadKey(req)].at = now
    /\ \A k \in DOMAIN cache :
          cache[k].exp - cache[k].at =
             CASE k = key_latest -> 300
               [] k = key_total -> 30
               [] k = key_today -> 10
               [] k \in {key_total_user(u) : u \in Users} -> 30
               [] k \in {key_today_user(u) : u \in Users} -> 30

\* C14 witness: a miss of today just wrote its key while the latest-coffee
\* and today-by-user entries are in the cache
C14_Witness ==
    /\ req.op = "get_coffee_count_today"
    /\ IsMiss(resp.hdr)
    /\ cache[key_today].exp = now + 10
    /\ Present(key_latest)
    /\ \E u \in Users : Present(key_today_user(u))

\* C15: when a cache deletion of a write handler fails, the request ends in
\* an error after its commit: the store stays as committed (the row change
\* of the request is in it), the keys the handler had not deleted yet keep
\* their entries, and every entry in the cache is younger than its
\* time-to-live.
C15_FailedDeletionKeepsCommit ==
    [][ /\ w_del_fails =>
             LET c == calls.w
                 keys == WriteKeys(c.op, c.user)
             IN  /\ resp'.status = 500
                 /\ c.committed
                 /\ UNCHANGED store
                 /\ c.op \in {"create_cup", "perform_drink"} => c.body[1] \in cup'
                 /\ c.op \in {"create_coffee", "update_coffee"} =>
                        \E x \in coffee' : coffee_response(x) = c.body[1]
                 /\ c.op = "delete_coffee" => \A x \in coffee' : x.id # c.id
                 /\ \A i \in Instr(c).n..Len(keys) :
                        keys[i] \in DOMAIN cache =>
                            /\ keys[i] \in DOMAIN cache'
                            /\ cache'[keys[i]] = cache[keys[i]]
        /\ \A k \in DOMAIN cache' :
             /\ now' < cache'[k].exp
             /\ cache'[k].exp <= cache'[k].at + KeyTtl(k)
      ]_vars

\* C15 witness: create_cup answered with 500 after its commit, the second
\* Cup is stored and the total key still holds the count 1
C15_Witness ==
    /\ req.op = "create_cup"
    /\ resp.status = 500
    /\ req.id \in CupIds
    /\ CountTotal = 2
    /\ Present(key_total)
    /\ cache[key_total].data = json_dumps_int(1)

\* C16: a write handler changes no cache key before its commit, and when it
\* returns success it has committed and deleted every key of its list: none
\* of them is in the cache.
C16_DeleteAfterCommitBeforeReturn ==
    [][ /\ (calls.w.op # "" /\ ~calls.w.committed) => cache' = cache
        /\ w_del => calls.w.committed
        /\ (calls.w.op # "" /\ calls'.w.op = "" /\ resp'.status = 200) =>
             LET keys == WriteKeys(calls.w.op, calls.w.user) IN
             /\ calls.w.committed
             /\ \A i \in 1..Len(keys) : keys[i] \notin DOMAIN cache'
      ]_vars

\* C16 witness: a second drink returned success, its four keys are absent
\* and the latest-coffee entry is still cached
C16_Witness ==
    /\ req.op = "perform_drink"
    /\ resp.status = 200
    /\ calls.w.op = ""
    /\ CountTotal = 2
    /\ \A i \in 1..4 : ~Present(CupKeys(req.user)[i])
    /\ Present(key_latest)

\* C17: a read that queried the store before a write and wrote the cache
\* after it leaves a value that differs from the store (the witness); the
\* entry heals within its time-to-live: a hit leaves the cache as it is (no
\* rewrite, no new expiry), every entry in the cache is younger than its
\* time-to-live, and a read that finds no usable entry takes its value from
\* the store.
C17_StaleEntrySelfHeals ==
    [][ /\ (calls.r.op = "" /\ calls'.r.op = "" /\ req'.op \in CacheableOps
            /\ IsHit(resp'.hdr)) => cache' = cache
        /\ \A k \in DOMAIN cache' :
             /\ now' < cache'[k].exp
             /\ cache'[k].exp <= cache'[k].at + KeyTtl(k)
        /\ \A r \in RaceReads :
             (r_lookup(r) /\ ReadKey(r) \notin DOMAIN cache) => calls'.r.op = r.op
        /\ r_query =>
             LET r == [op |-> calls.r.op, user |-> calls.r.user, id |-> 0] IN
             calls'.r.body = Some(ReadStore(r))
      ]_vars

\* C17 witness: no handler is under way, two Cups are stored, and a read of
\* total is answered as a hit with the count 1 that a racing read cached
C17_Witness ==
    /\ calls = NoCalls
    /\ req.op = "get_coffee_count_total"
    /\ IsHit(resp.hdr)
    /\ resp.body = Some(1)
    /\ CountTotal = 2
    /\ cache[key_total].data = json_dumps_int(1)

\* every Cup row's coffee_id is the id of a stored Coffee row
ReferentialIntegrity == \A c \in cup : c.coffee_id # None /\ c.coffee_id[1] \in CoffeeIds

\* C18: in every reachable state each Cup row's coffee_id is the id of a
\* stored Coffee row, and delete_coffee of a Coffee that a Cup references
\* ends in an error and leaves both tables as they were.
C18_ReferentialIntegrity ==
    /\ []ReferentialIntegrity
    /\ [][ \A i \in 1..MaxCoffees :
             (delete_coffee(i) /\ \E c \in cup : c.coffee_id = Some(i)) =>
                /\ resp'.status = 500
                /\ UNCHANGED <<coffee, cup>>
         ]_vars

\* C18 witness: a refused delete_coffee of a stored Coffee that a Cup
\* references
C18_Witness ==
    /\ req.op = "delete_coffee"
    /\ resp.status = 500
    /\ req.id \in CoffeeIds
    /\ \E c \in cup : c.coffee_id = Some(req.id)

\* the keys a Cup write for username u may delete
CupWriteKeys(u) == {key_today, key_total, key_today_user(u), key_total_user(u)}

\* usernames of the key functions' distinctness: the stored ones, the empty
\* one and ones that repeat a part of a key
FrameNames == Users \cup {"", "total", "alice:bob", ":alice"}

\* C19: a create_cup, perform_drink or delete_cup for username u leaves every
\* key other than today, total, today-by-user(u) and total-by-user(u) as it
\* was, the latest-coffee key and the per-user keys of every other username
\* among them: distinct usernames get distinct keys and no per-user key is a
\* fixed key.
C19_CupWriteFrame ==
    [][ /\ \A u \in FrameNames :
            /\ key_latest \notin CupWriteKeys(u)
            /\ \A v \in FrameNames \ {u} :
                  /\ key_total_user(v) \notin CupWriteKeys(u)
                  /\ key_today_user(v) \notin CupWriteKeys(u)
        /\ \A u \in Users :
            (\/ \E c \in CountCupPayloads : c.username = Some(u) /\ create_cup(c)
             \/ perform_drink(u)
             \/ \E i \in 1..MaxCups :
                  /\ \E c \in cup : c.id = i /\ c.username = Some(u)
                  /\ delete_cup(i))
            => \A k \in (DOMAIN cache \cup DOMAIN cache') \ CupWriteKeys(u) :
                  /\ k \in DOMAIN cache
                  /\ k \in DOMAIN cache'
                  /\ cache'[k] = cache[k]
      ]_vars

\* C19 witness: a Cup was just written for alice, her per-user entries are
\* gone, and the latest-coffee entry and both per-user entries of bob are in
\* the cache
C19_Witness ==
    /\ req.op \in {"create_cup", "perform_drink"}
    /\ req.user = "alice"
    /\ resp.status = 200
    /\ ~Present(key_total_user("alice"))
    /\ ~Present(key_today_user("alice"))
    /\ Present(key_latest)
    /\ Present(key_total_user("bob"))
    /\ Present(key_today_user("bob"))

\* the store and the answer of a write are those of its transaction, which
\* reads the tables and the request only
TxDecides(t) ==
    /\ store' = <<t.coffee, t.cup, t.nextCoffeeId, t.nextCupId>>
    /\ req' = t.req
    /\ resp'.status = t.status
    /\ resp'.body = t.body

\* C20: whatever the cache holds (nothing, a stale snapshot, bytes that are
\* no JSON), every write leaves the tables and gives the answer that its
\* transaction computes from the tables and the request alone, perform_drink
\* with the Coffee of the highest id in the table; no step of a read changes
\* the tables.
C20_CacheOwnsNothing ==
    [][ /\ \A c \in CountCoffeePayloads : create_coffee(c) => TxDecides(create_coffee_tx(c))
        /\ \A i \in StepIds, p \in StepCoffeePatches :
              update_coffee(i, p) => TxDecides(update_coffee_tx(i, p))
        /\ \A i \in StepIds : delete_coffee(i) => TxDecides(delete_coffee_tx(i))
        /\ \A c \in StepCupPayloads : create_cup(c) => TxDecides(create_cup_tx(c))
        /\ \A u \in Users : perform_drink(u) => TxDecides(perform_drink_tx(u))
        /\ \A i \in StepIds, p \in OwnCupPatches :
              update_cup(i, p) => TxDecides(update_cup_tx(i, p))
        /\ \A i \in StepIds : delete_cup(i) => TxDecides(delete_cup_tx(i))
        /\ (r_lookup(OwnRead) \/ r_query \/ r_set) => UNCHANGED store
      ]_vars

\* C20 witness: perform_drink stored a Cup of Coffee 2, the latest in the
\* table, while the cached latest-coffee snapshot is the stale one of Coffee 1
C20_Witness ==
    /\ req.op = "perform_drink"
    /\ resp.status = 200
    /\ resp.body[1].coffee_id = Some(2)
    /\ Present(key_latest)
    /\ cache[key_latest].data.kind = "json"
    /\ cache[key_latest].data.val[1].id = 1

\* C21: the lifespan makes one client; once the lifespan has ended, after a
\* shutdown as after a failed ping, the client is closed; while the
\* application serves, the handle is set to a client that is open, so that
\* the assertion of get_redis holds and no request fails on it.
C21_ClientReleased ==
    /\ lifespan.created <= 1
    /\ lifespan.pc \in {"ping", "yield", "finally", "done"} => lifespan.created = 1
    /\ lifespan.pc = "done" => (redis_client # None /\ redis_client[1].closed)
    /\ lifespan.pc = "yield" => (get_redis.exc = "" /\ ~get_redis.val[1].closed)
    /\ req.op # "get_redis"

\* C21 witness: the lifespan has ended by a shutdown after a request was
\* answered from the cache, and the client is closed
C21_Witness ==
    /\ lifespan.pc = "done"
    /\ lifespan.exc = ""
    /\ redis_client = Some([closed |-> TRUE])
    /\ req.op = "get_coffee_count_total"
    /\ IsHit(resp.hdr)

====
